---- MODULE Spec2Model ----
(***************************************************************************)
(* Model of skill_sdk/responses/task.py (client tasks: delayed or          *)
(* scheduled) and of the ErrorResponse behaviour exercised by             *)
(* tests/responses/test_error.py.                                          *)
(*                                                                         *)
(* Text produced by a formatter (isoformat, duration_isoformat) is a       *)
(* sequence of one-character strings, so that its syntax can be inspected. *)
(* Names (intents, skill ids, parameter keys and values) are plain         *)
(* strings.  An Optional[X] value is None == <<>> or Some(x) == <<x>>.     *)
(***************************************************************************)
EXTENDS Integers, Sequences, FiniteSets, TLC

\* ------------------------------------------------------------- bounds ---
\* largest number of DelayedClientTask objects alive in one behaviour
MaxTasks == 3

\* ----------------------------------------------------------- Optional ---
None == <<>>

Some(x) == <<x>>

\* ------------------------------------------------------ text rendering ---
DigitChars == <<"0", "1", "2", "3", "4", "5", "6", "7", "8", "9">>

Digit(d) == DigitChars[d + 1]

RECURSIVE IntToStr(_)
\* "%d" % n for n >= 0
IntToStr(n) ==
    IF n < 10 THEN <<Digit(n)>> ELSE IntToStr(n \div 10) \o <<Digit(n % 10)>>

RECURSIVE ZeroPad(_, _)
\* "%0<w>d" % n for n >= 0
ZeroPad(n, w) ==
    IF w <= 1 THEN IntToStr(n)
    ELSE IF Len(IntToStr(n)) >= w THEN IntToStr(n)
    ELSE <<"0">> \o ZeroPad(n, w - 1)

RECURSIVE RStripZeros(_)
\* str.rstrip('0')
RStripZeros(s) ==
    IF Len(s) > 0 /\ s[Len(s)] = "0" THEN RStripZeros(SubSeq(s, 1, Len(s) - 1))
    ELSE s

\* ------------------------------------------------------- ReferenceType ---
ReferenceType == {"SPEECH_END", "THIS_RESPONSE", "MEDIA_CONTENT_END"}

\* ------------------------------------------------- datetime.timedelta ---
\* A timedelta in Python's normalised form: days any integer,
\* 0 <= seconds < 86400, 0 <= microseconds < 1000000.
timedelta(d, s, us) == [days |-> d, seconds |-> s, microseconds |-> us]

\* the offsets handed to ExecutionTime.after(): zero, whole seconds, every unit, a
\* fraction of a second, and negative durations (timedelta(seconds=-10) is
\* days=-1, seconds=86390)
Offsets ==
    { timedelta(0, 0, 0),
      timedelta(0, 10, 0),
      timedelta(0, 59, 999999),
      timedelta(0, 60, 0),
      timedelta(0, 3600, 0),
      timedelta(0, 3661, 0),
      timedelta(0, 86399, 0),
      timedelta(1, 0, 0),
      timedelta(2, 7384, 500000),
      timedelta(7, 0, 0),
      timedelta(400, 43200, 120),
      timedelta(0, 0, 1),
      timedelta(-1, 86390, 0),
      timedelta(-1, 86399, 999999),
      timedelta(-2, 0, 0) }

\* the offsets handed to the after() method of a task
TaskOffsets ==
    { timedelta(0, 0, 0),
      timedelta(2, 7384, 500000),
      timedelta(-1, 86390, 0) }

\* tduration < timedelta(0)
IsNegative(td) == td.days < 0

\* abs(total microseconds) split as whole seconds and microseconds:
\* usecs = abs((days * 24 * 60 * 60 + seconds) * 1000000 + microseconds)
\* seconds, usecs = divmod(usecs, 1000000)
AbsSecUsec(td) ==
    LET S == td.days * 86400 + td.seconds
    IN  IF S >= 0 THEN [sec |-> S, usec |-> td.microseconds]
        ELSE IF td.microseconds = 0 THEN [sec |-> -S, usec |-> 0]
        ELSE [sec |-> -S - 1, usec |-> 1000000 - td.microseconds]

\* isodate strftime(tduration, "P%P") for a timedelta
strfduration(td) ==
    LET a       == AbsSecUsec(td)
        usecs   == a.usec
        seconds == a.sec % 60
        minutes == (a.sec \div 60) % 60
        hours   == (a.sec \div 3600) % 24
        days    == a.sec \div 86400
        secPart ==
            IF seconds # 0 \/ usecs # 0
            THEN (IF usecs # 0
                  THEN RStripZeros(IntToStr(seconds) \o <<".">> \o ZeroPad(usecs, 6))
                  ELSE IntToStr(seconds)) \o <<"S">>
            ELSE <<>>
        timePart ==
            IF hours # 0 \/ minutes # 0 \/ seconds # 0 \/ usecs # 0
            THEN <<"T">>
                 \o (IF hours # 0 THEN IntToStr(hours) \o <<"H">> ELSE <<>>)
                 \o (IF minutes # 0 THEN IntToStr(minutes) \o <<"M">> ELSE <<>>)
                 \o secPart
            ELSE <<>>
        ret == (IF days # 0 THEN IntToStr(days) \o <<"D">> ELSE <<>>) \o timePart
    IN  <<"P">> \o (IF ret # <<>> THEN ret ELSE <<"0", "D">>)

\* duration_isoformat reading offset.seconds where the total is meant: the
\* days of the offset are lost
duration_isoformat_seconds_only(td) ==
    (IF IsNegative(td) THEN <<"-">> ELSE <<>>)
    \o strfduration(timedelta(0, td.seconds, td.microseconds))

\* isodate.duration_isoformat(offset)
duration_isoformat(td) ==
    (IF IsNegative(td) THEN <<"-">> ELSE <<>>) \o strfduration(td)

\* ------------------------------------------- ISO-8601 duration syntax ---
IsDigit(c) == \E d \in 0..9 : DigitChars[d + 1] = c

DigitVal(c) == CHOOSE d \in 0..9 : DigitChars[d + 1] = c

RECURSIVE Pow10(_)
Pow10(k) == IF k = 0 THEN 1 ELSE 10 * Pow10(k - 1)

\* seconds denoted by one designator of the grammar
\* [sign]P[nW][nD][T[nH][nM][n[.f]S]] (the forms that denote a timedelta)
UnitSeconds(c, inTime) ==
    CASE c = "W" -> 604800
      [] c = "D" -> 86400
      [] c = "H" /\ inTime -> 3600
      [] c = "M" /\ inTime -> 60
      [] c = "S" /\ inTime -> 1

RECURSIVE ScanDuration(_, _, _)
\* reads s from position i; st carries the number being read and the
\* seconds and microseconds read so far
ScanDuration(s, i, st) ==
    IF i > Len(s) THEN st
    ELSE LET c == s[i]
         IN  IF IsDigit(c)
             THEN IF st.inFrac
                  THEN ScanDuration(s, i + 1,
                           [st EXCEPT !.frac = st.frac * 10 + DigitVal(c),
                                      !.fracLen = st.fracLen + 1])
                  ELSE ScanDuration(s, i + 1,
                           [st EXCEPT !.num = st.num * 10 + DigitVal(c)])
             ELSE IF c = "." \/ c = ","
             THEN ScanDuration(s, i + 1, [st EXCEPT !.inFrac = TRUE])
             ELSE IF c = "T"
             THEN ScanDuration(s, i + 1, [st EXCEPT !.inTime = TRUE])
             ELSE ScanDuration(s, i + 1,
                      [st EXCEPT !.sec = st.sec + st.num * UnitSeconds(c, st.inTime),
                                 !.usec = st.usec + st.frac * Pow10(6 - st.fracLen),
                                 !.num = 0, !.frac = 0, !.fracLen = 0,
                                 !.inFrac = FALSE])

\* the string is a duration of the grammar: optional sign, "P", then at
\* least one number-designator pair
IsDurationSyntax(s) ==
    LET body == IF Len(s) > 0 /\ s[1] \in {"+", "-"} THEN Tail(s) ELSE s
    IN  /\ Len(body) >= 3
        /\ body[1] = "P"
        /\ body[Len(body)] \in {"W", "D", "H", "M", "S"}
        /\ \A i \in 2..Len(body) :
              \/ IsDigit(body[i])
              \/ body[i] \in {".", ",", "T", "W", "D", "H", "M", "S"}

\* the timedelta an ISO-8601 duration string denotes
DecodeDuration(s) ==
    LET neg  == s[1] = "-"
        from == IF s[1] \in {"+", "-"} THEN 3 ELSE 2
        r    == ScanDuration(s, from,
                    [num |-> 0, frac |-> 0, fracLen |-> 0, inFrac |-> FALSE,
                     inTime |-> FALSE, sec |-> 0, usec |-> 0])
        S    == IF ~neg THEN r.sec
                ELSE IF r.usec = 0 THEN -r.sec ELSE -r.sec - 1
        us   == IF ~neg \/ r.usec = 0 THEN r.usec ELSE 1000000 - r.usec
    IN  timedelta(S \div 86400, S % 86400, us)

\* -------------------------------------------------- datetime.datetime ---
\* tzinfo is None for a naive datetime, Some(utcoffset in seconds) otherwise
datetime(y, mo, d, h, mi, sec, us, tz) ==
    [year |-> y, month |-> mo, day |-> d, hour |-> h, minute |-> mi,
     second |-> sec, microsecond |-> us, tzinfo |-> tz]

\* the time points handed to ExecutionTime.at(): naive (as datetime.datetime.now() is),
\* naive with microseconds, UTC, and offsets east and west of UTC
Datetimes ==
    { datetime(2020, 11, 25, 12, 0, 0, 0, None),
      datetime(2021, 1, 2, 3, 4, 5, 500, None),
      datetime(2020, 11, 25, 12, 0, 0, 0, Some(0)),
      datetime(2020, 11, 25, 12, 0, 0, 250000, Some(3600)),
      datetime(2020, 11, 25, 12, 0, 0, 0, Some(-5400)),
      datetime(2020, 2, 29, 0, 0, 0, 0, Some(-43200)),
      datetime(999, 12, 31, 23, 59, 59, 999999, Some(19815)) }

\* the time points handed to the at() method of a task
TaskDatetimes ==
    { datetime(2020, 11, 25, 12, 0, 0, 0, None),
      datetime(2021, 1, 2, 3, 4, 5, 500, Some(-5400)) }

\* the "+HH:MM[:SS]" suffix of datetime.isoformat()
FormatOffset(off) ==
    LET a  == IF off < 0 THEN -off ELSE off
        hh == a \div 3600
        mm == (a % 3600) \div 60
        ss == a % 60
    IN  <<IF off < 0 THEN "-" ELSE "+">> \o ZeroPad(hh, 2) \o <<":">> \o ZeroPad(mm, 2)
        \o (IF ss # 0 THEN <<":">> \o ZeroPad(ss, 2) ELSE <<>>)

\* datetime.isoformat()
isoformat(t) ==
    ZeroPad(t.year, 4) \o <<"-">> \o ZeroPad(t.month, 2) \o <<"-">> \o ZeroPad(t.day, 2)
    \o <<"T">>
    \o ZeroPad(t.hour, 2) \o <<":">> \o ZeroPad(t.minute, 2) \o <<":">> \o ZeroPad(t.second, 2)
    \o (IF t.microsecond # 0 THEN <<".">> \o ZeroPad(t.microsecond, 6) ELSE <<>>)
    \o (IF t.tzinfo # None THEN FormatOffset(t.tzinfo[1]) ELSE <<>>)

\* ------------------------------------------------------------ records ---
\* ExecuteAfter(reference=..., offset=...)
ExecuteAfter(reference, offset) == [reference |-> reference, offset |-> offset]

\* ExecutionTime(execute_after=..., execute_at=...); both default to None
ExecutionTime(execute_after, execute_at) ==
    [execute_after |-> execute_after, execute_at |-> execute_at]

\* ExecutionTime.at that also fills execute_after with a default ExecuteAfter
ExecutionTime_at_with_after(time) ==
    ExecutionTime(Some(ExecuteAfter("SPEECH_END", None)), Some(isoformat(time)))

\* ExecutionTime.at(time)
ExecutionTime_at(time) == ExecutionTime(None, Some(isoformat(time)))

\* ExecutionTime.after(event, offset)
ExecutionTime_after(event, offset) ==
    ExecutionTime(Some(ExecuteAfter(event, Some(duration_isoformat(offset)))), None)

\* a default offset of ten seconds, as in the docstring example
DefaultOffset_ten_seconds == timedelta(0, 10, 0)

\* the default offset of after(): timedelta(0)
DefaultOffset == timedelta(0, 0, 0)

\* validation that also rejects the empty intent
InvokeDataValid_non_empty(intent, skill_id, parameters) ==
    intent # None /\ intent # Some("")

\* validation of InvokeData's fields: intent is a required Text (None is
\* rejected, any string passes), skill_id is Optional[Text]
InvokeDataValid(intent, skill_id, parameters) == intent # None

\* InvokeData(intent=..., skill_id=..., parameters=...)
InvokeData(intent, skill_id, parameters) ==
    [intent |-> intent[1], skill_id |-> skill_id, parameters |-> parameters]

\* ---------------------------------------------------- keyword arguments ---
\* a keyword-argument value is a Text, [text |-> s], or a List[Text],
\* [list |-> <<s1, ...>>]
Text(s) == [text |-> s]

List(l) == [list |-> l]

\* isinstance(v, Text)
IsText(v) == "text" \in DOMAIN v

\* the parameter maps handed to InvokeData()
Kwargs ==
    { [k \in {} |-> Text("")],
      [k \in {"location"} |-> Text("Bonn")],
      [k \in {"location"} |-> Text("")],
      [k \in {"location"} |-> List(<<>>)],
      [k \in {"location"} |-> List(<<"Bonn", "Berlin">>)],
      [k \in {"location"} |-> List(<<"Berlin", "Bonn">>)],
      [k \in {"location", "date"} |->
          IF k = "location" THEN List(<<"Bonn", "Berlin">>) ELSE Text("today")],
      [k \in {"location", "date"} |->
          IF k = "location" THEN Text("Bonn") ELSE List(<<"today", "today">>)] }

\* the **kwargs maps handed to invoke()
TaskKwargs ==
    { [k \in {} |-> Text("")],
      [k \in {"location"} |-> Text("Bonn")],
      [k \in {"location", "date", "tags"} |->
          IF k = "location" THEN List(<<"Bonn", "Berlin">>)
          ELSE IF k = "date" THEN Text("today") ELSE List(<<>>)] }

\* normalisation that keeps only the first element of a list value
Parameters_first_only(kwargs) ==
    [k \in DOMAIN kwargs |->
        IF IsText(kwargs[k]) THEN <<kwargs[k].text>>
        ELSE SubSeq(kwargs[k].list, 1, IF Len(kwargs[k].list) > 1 THEN 1 ELSE Len(kwargs[k].list))]

\* {k: [v] if isinstance(v, Text) else v for k, v in kwargs.items()}
Parameters(kwargs) ==
    [k \in DOMAIN kwargs |-> IF IsText(kwargs[k]) THEN <<kwargs[k].text>> ELSE kwargs[k].list]

\* the intent arguments: missing, empty, and a name
Intents == {None, Some(""), Some("X")}

SkillIds == {None, Some("weather-skill")}

\* -------------------------------------------------------------- state ---
VARIABLES
    heap,       \* the InvokeData objects, by reference (index)
    tasks,      \* the DelayedClientTask objects, by reference (index)
    receiver,   \* receiver[i]: the task tasks[i] was copied from; 0 for invoke()
    call,       \* the last call: operation, arguments, outcome
    handlers,   \* handlers[intent]: the ErrorResponse the registered handler returns
    built,      \* the last ErrorResponse(code=..., text=...) call and its result
    response    \* the last skill.test_intent(intent) call and its result

taskVars == <<heap, tasks, receiver, call>>

errorVars == <<handlers, built, response>>

vars == <<heap, tasks, receiver, call, handlers, built, response>>

\* DelayedClientTask(invoke_data=..., execution_time=...); invoke_data is a
\* reference into heap
DelayedClientTask(invoke_data, execution_time) ==
    [invoke_data |-> invoke_data, execution_time |-> execution_time]

\* self.copy(update=dict(execution_time=...)): a shallow copy, every field
\* not updated keeps the receiver's value (for invoke_data, the reference)
copy(self, execution_time) == DelayedClientTask(self.invoke_data, execution_time)

Call(op, args, raised, ret, value) ==
    [op |-> op, args |-> args, raised |-> raised, ret |-> ret, value |-> value]

\* ------------------------------------------------------ error responses ---
\* ErrorCode.INVALID_TOKEN
INVALID_TOKEN == 2

\* ErrorCode.INTERNAL_ERROR
INTERNAL_ERROR == 999

\* the named error conditions and their integer codes
ErrorCode ==
    [name \in {"INVALID_TOKEN", "INTERNAL_ERROR"} |->
        IF name = "INVALID_TOKEN" THEN INVALID_TOKEN ELSE INTERNAL_ERROR]

\* ErrorResponse(code=..., text=...)
ErrorResponse(code, text) == [code |-> code, text |-> text]

\* a dispatch that reports every handler result as an internal error
test_intent_internal_error(registered, intent) ==
    Some(ErrorResponse(999, "unhandled exception"))

\* skill.test_intent(intent): the value the registered handler returns
test_intent(registered, intent) == registered[intent]

ErrorTexts == {"internal error", "invalid token", "unhandled exception"}

HandledIntents == {"ERROR", "OTHER"}

Init ==
    /\ heap = <<>>
    /\ tasks = <<>>
    /\ receiver = <<>>
    /\ call = Call("none", <<>>, FALSE, 0, None)
    /\ handlers = [i \in HandledIntents |-> None]
    /\ built = None
    /\ response = None

\* DelayedClientTask.invoke(intent, skill_id, **kwargs)
Invoke(intent, skill_id, kwargs) ==
    /\ Len(tasks) < MaxTasks
    /\ LET parameters == Parameters(kwargs)
           args == [intent |-> intent, skill_id |-> skill_id, kwargs |-> kwargs]
       IN  IF InvokeDataValid(intent, skill_id, parameters)
           THEN /\ heap' = Append(heap, InvokeData(intent, skill_id, parameters))
                /\ tasks' = Append(tasks,
                       DelayedClientTask(Len(heap) + 1,
                           ExecutionTime_after("SPEECH_END", DefaultOffset)))
                /\ receiver' = Append(receiver, 0)
                /\ call' = Call("invoke", args, FALSE, Len(tasks) + 1, None)
           ELSE /\ call' = Call("invoke", args, TRUE, 0, None)
                /\ UNCHANGED <<heap, tasks, receiver>>
    /\ UNCHANGED errorVars

\* at() that sets execution_time on the receiver and returns it
At_in_place(self, time) ==
    /\ self \in 1..Len(tasks)
    /\ tasks' = [tasks EXCEPT ![self].execution_time = ExecutionTime_at(time)]
    /\ call' = Call("at", [self |-> self, time |-> time], FALSE, self, None)
    /\ UNCHANGED <<heap, receiver>>
    /\ UNCHANGED errorVars

\* DelayedClientTask.at(self, time)
At(self, time) ==
    /\ Len(tasks) < MaxTasks
    /\ self \in 1..Len(tasks)
    /\ tasks' = Append(tasks, copy(tasks[self], ExecutionTime_at(time)))
    /\ receiver' = Append(receiver, self)
    /\ call' = Call("at", [self |-> self, time |-> time], FALSE, Len(tasks) + 1, None)
    /\ UNCHANGED heap
    /\ UNCHANGED errorVars

\* DelayedClientTask.after(self, event, offset)
After(self, event, offset) ==
    /\ Len(tasks) < MaxTasks
    /\ self \in 1..Len(tasks)
    /\ tasks' = Append(tasks, copy(tasks[self], ExecutionTime_after(event, offset)))
    /\ receiver' = Append(receiver, self)
    /\ call' = Call("after", [self |-> self, event |-> event, offset |-> offset],
                    FALSE, Len(tasks) + 1, None)
    /\ UNCHANGED heap
    /\ UNCHANGED errorVars

\* ExecutionTime.at(time), called directly
StaticAt(time) ==
    /\ call' = Call("ExecutionTime.at", [time |-> time], FALSE, 0,
                    Some(ExecutionTime_at(time)))
    /\ UNCHANGED <<heap, tasks, receiver>>
    /\ UNCHANGED errorVars

\* ExecutionTime.after(event, offset), called directly
StaticAfter(event, offset) ==
    /\ call' = Call("ExecutionTime.after", [event |-> event, offset |-> offset],
                    FALSE, 0, Some(ExecutionTime_after(event, offset)))
    /\ UNCHANGED <<heap, tasks, receiver>>
    /\ UNCHANGED errorVars

\* InvokeData(intent=..., skill_id=..., parameters=...), called directly
NewInvokeData(intent, skill_id, kwargs) ==
    /\ LET parameters == Parameters(kwargs)
           args == [intent |-> intent, skill_id |-> skill_id, kwargs |-> kwargs]
       IN  IF InvokeDataValid(intent, skill_id, parameters)
           THEN call' = Call("InvokeData", args, FALSE, 0,
                             Some(InvokeData(intent, skill_id, parameters)))
           ELSE call' = Call("InvokeData", args, TRUE, 0, None)
    /\ UNCHANGED <<heap, tasks, receiver>>
    /\ UNCHANGED errorVars

\* ErrorResponse(code=code, text=text), as in test_init
NewErrorResponse(code, text) ==
    /\ built' = Some([code |-> code, text |-> text, ret |-> ErrorResponse(code, text)])
    /\ UNCHANGED <<handlers, response>>
    /\ UNCHANGED taskVars

\* @skill.intent_handler(intent) on a handler returning
\* ErrorResponse(code=ErrorCode.<name>, text=text)
IntentHandler(intent, name, text) ==
    /\ handlers' = [handlers EXCEPT ![intent] = Some(ErrorResponse(ErrorCode[name], text))]
    /\ UNCHANGED <<built, response>>
    /\ UNCHANGED taskVars

\* skill.test_intent(intent)
TestIntent(intent) ==
    /\ handlers[intent] # None
    /\ response' = Some([intent |-> intent, ret |-> test_intent(handlers, intent)[1]])
    /\ UNCHANGED <<handlers, built>>
    /\ UNCHANGED taskVars

Next ==
    \/ \E intent \in Intents, skill_id \in SkillIds, kwargs \in TaskKwargs :
          Invoke(intent, skill_id, kwargs)
    \/ \E self \in 1..MaxTasks, time \in TaskDatetimes : At(self, time)
    \/ \E self \in 1..MaxTasks, event \in ReferenceType, offset \in TaskOffsets :
          After(self, event, offset)

\* the builder API of DelayedClientTask
Spec == Init /\ [][Next]_vars

NextDirect ==
    \/ \E time \in Datetimes : StaticAt(time)
    \/ \E event \in ReferenceType, offset \in Offsets : StaticAfter(event, offset)
    \/ \E intent \in Intents, skill_id \in SkillIds, kwargs \in Kwargs :
          NewInvokeData(intent, skill_id, kwargs)

\* the record constructors, called directly
SpecDirect == Init /\ [][NextDirect]_vars

NextError ==
    \/ \E code \in {INVALID_TOKEN, INTERNAL_ERROR}, text \in ErrorTexts :
          NewErrorResponse(code, text)
    \/ \E intent \in HandledIntents, name \in DOMAIN ErrorCode, text \in ErrorTexts :
          IntentHandler(intent, name, text)
    \/ \E intent \in HandledIntents : TestIntent(intent)

\* error responses returned from intent handlers
SpecError == Init /\ [][NextError]_vars

\* ============================================================ claims ===
\* the InvokeData object a task references
InvokeDataOf(h, ts, i) == h[ts[i].invoke_data]

RECURSIVE Base(_, _)
\* the task produced by invoke() that task i derives from
Base(rcv, i) == IF rcv[i] = 0 THEN i ELSE Base(rcv, rcv[i])

\* the string ends in "Z" or in a "+HH:MM" / "-HH:MM" offset, optionally
\* followed by ":SS"
HasUtcOrOffsetDesignator(s) ==
    LET n == Len(s)
        IsOffsetAt(i) ==
            /\ i >= 1
            /\ i + 5 <= n
            /\ s[i] \in {"+", "-"}
            /\ IsDigit(s[i + 1]) /\ IsDigit(s[i + 2])
            /\ s[i + 3] = ":"
            /\ IsDigit(s[i + 4]) /\ IsDigit(s[i + 5])
    IN  \/ n > 0 /\ s[n] = "Z"
        \/ IsOffsetAt(n - 5)
        \/ /\ IsOffsetAt(n - 8)
           /\ s[n - 2] = ":" /\ IsDigit(s[n - 1]) /\ IsDigit(s[n])

\* exactly one of execute_at and execute_after is set
ExactlyOneSet(et) == (et.execute_at = None) # (et.execute_after = None)

\* every ExecutionTime of the state: of the tasks, and the one returned by
\* the last direct call
ExecutionTimes ==
    { tasks[i].execution_time : i \in 1..Len(tasks) }
    \cup (IF call.op \in {"ExecutionTime.at", "ExecutionTime.after"}
          THEN {call.value[1]} ELSE {})

\* C1: at() and after() leave every existing task, and the InvokeData it
\* references, as it was; the task they return has the InvokeData of the
\* invoke() task it derives from and differs from its receiver only in
\* execution_time.
C1_BaseNeverChanged ==
    [][ /\ Len(tasks') >= Len(tasks)
        /\ \A i \in 1..Len(tasks) :
              /\ tasks'[i] = tasks[i]
              /\ InvokeDataOf(heap', tasks', i) = InvokeDataOf(heap, tasks, i)
        /\ (call'.op \in {"at", "after"} /\ Len(tasks') = Len(tasks) + 1) =>
              LET n == Len(tasks')
                  r == receiver'[n]
              IN  /\ r \in 1..Len(tasks)
                  /\ InvokeDataOf(heap', tasks', n)
                        = InvokeDataOf(heap, tasks, Base(receiver, r))
                  /\ [tasks'[n] EXCEPT !.execution_time = tasks[r].execution_time]
                        = tasks[r]
      ]_vars

\* C1 witness: at(t) and then after(r, o) were called on the same invoke()
\* task, which had keyword arguments
C1_Witness ==
    /\ Len(tasks) = 3
    /\ receiver = <<0, 1, 1>>
    /\ DOMAIN heap[1].parameters # {}
    /\ tasks[2].execution_time.execute_at # None
    /\ call.op = "after"
    /\ tasks[3].execution_time.execute_after # None

\* C2: a task returned by at() or after() references an InvokeData object
\* (and so a parameters map) different from the one its receiver references.
C2_NoSharedInvokeData ==
    \A i \in 1..Len(tasks) :
        receiver[i] # 0 => tasks[i].invoke_data # tasks[receiver[i]].invoke_data

\* C3: every ExecutionTime has exactly one of execute_at and execute_after
\* set: at() sets execute_at only, after() and invoke() set execute_after only.
C3_ExactlyOneSet ==
    /\ \A et \in ExecutionTimes : ExactlyOneSet(et)
    /\ call.op = "at" =>
          /\ tasks[call.ret].execution_time.execute_at # None
          /\ tasks[call.ret].execution_time.execute_after = None
    /\ (call.op \in {"after", "invoke"} /\ ~call.raised) =>
          /\ tasks[call.ret].execution_time.execute_after # None
          /\ tasks[call.ret].execution_time.execute_at = None
    /\ call.op = "ExecutionTime.at" =>
          /\ call.value[1].execute_at # None
          /\ call.value[1].execute_after = None
    /\ call.op = "ExecutionTime.after" =>
          /\ call.value[1].execute_after # None
          /\ call.value[1].execute_at = None

\* C3 witness: an absolute and a relative task exist, the last made by at()
C3_Witness ==
    /\ call.op = "at"
    /\ \E i, j \in 1..Len(tasks) :
          /\ tasks[i].execution_time.execute_at # None
          /\ tasks[j].execution_time.execute_after # None
          /\ receiver[j] # 0

\* C4: no ExecuteAfter carries an offset that denotes a negative duration.
C4_OffsetNonNegative ==
    \A et \in ExecutionTimes :
        (et.execute_after # None /\ et.execute_after[1].offset # None) =>
            /\ IsDurationSyntax(et.execute_after[1].offset[1])
            /\ ~IsNegative(DecodeDuration(et.execute_after[1].offset[1]))

\* C5: every execute_at string carries an explicit UTC or offset designator.
C5_ExecuteAtHasDesignator ==
    \A et \in ExecutionTimes :
        et.execute_at # None => HasUtcOrOffsetDesignator(et.execute_at[1])

C7_ParametersNormalised ==
    (call.op = "invoke" /\ ~call.raised) =>
        LET kwargs == call.args.kwargs
            stored == InvokeDataOf(heap, tasks, call.ret).parameters
        IN  /\ DOMAIN stored = DOMAIN kwargs
            /\ \A k \in DOMAIN kwargs :
                  IF IsText(kwargs[k])
                  THEN /\ Len(stored[k]) = 1
                       /\ stored[k][1] = kwargs[k].text
                  ELSE /\ Len(stored[k]) = Len(kwargs[k].list)
                       /\ \A n \in 1..Len(stored[k]) : stored[k][n] = kwargs[k].list[n]

\* C7 witness: invoke() was given a string, a two-element list and an
\* empty list
C7_Witness ==
    /\ call.op = "invoke" /\ ~call.raised
    /\ \E k1, k2, k3 \in DOMAIN call.args.kwargs :
          /\ IsText(call.args.kwargs[k1])
          /\ ~IsText(call.args.kwargs[k2]) /\ Len(call.args.kwargs[k2].list) = 2
          /\ ~IsText(call.args.kwargs[k3]) /\ Len(call.args.kwargs[k3].list) = 0

\* C8: invoke() without keyword arguments returns a task with empty
\* parameters, executeAfter.reference SPEECH_END, an offset that encodes the
\* zero duration, and no executeAt.
C8_InvokeDefaults ==
    (call.op = "invoke" /\ ~call.raised /\ DOMAIN call.args.kwargs = {}) =>
        LET t == tasks[call.ret]
        IN  /\ DOMAIN InvokeDataOf(heap, tasks, call.ret).parameters = {}
            /\ t.execution_time.execute_at = None
            /\ t.execution_time.execute_after # None
            /\ t.execution_time.execute_after[1].reference = "SPEECH_END"
            /\ t.execution_time.execute_after[1].offset # None
            /\ IsDurationSyntax(t.execution_time.execute_after[1].offset[1])
            /\ DecodeDuration(t.execution_time.execute_after[1].offset[1])
                  = timedelta(0, 0, 0)

\* C8 witness: invoke("X", skill_id) without keyword arguments returned
C8_Witness ==
    /\ call.op = "invoke" /\ ~call.raised
    /\ DOMAIN call.args.kwargs = {}
    /\ call.args.intent = Some("X")
    /\ call.args.skill_id # None

\* C9: ExecutionTime.after(reference, d) with d non-negative yields the
\* given reference and an offset string that decodes to d.
C9_OffsetRoundTrip ==
    (call.op = "ExecutionTime.after" /\ ~IsNegative(call.args.offset)) =>
        LET ea == call.value[1].execute_after
        IN  /\ ea # None
            /\ ea[1].reference = call.args.event
            /\ ea[1].offset # None
            /\ IsDurationSyntax(ea[1].offset[1])
            /\ DecodeDuration(ea[1].offset[1]) = call.args.offset

\* C9 witness: an offset with days, hours, minutes and a fraction of a
\* second was encoded for a reference other than the default
C9_Witness ==
    /\ call.op = "ExecutionTime.after"
    /\ call.args.offset = timedelta(2, 7384, 500000)
    /\ call.args.event = "MEDIA_CONTENT_END"

\* C10: an ErrorResponse exposes the code and text it was built with, the
\* named error conditions have distinct codes (INVALID_TOKEN 2,
\* INTERNAL_ERROR 999), and test_intent returns the handler's ErrorResponse
\* with code and text unchanged.
C10_ErrorResponsePropagated ==
    [][ /\ built' # None =>
              /\ built'[1].ret.code = built'[1].code
              /\ built'[1].ret.text = built'[1].text
        /\ \A a, b \in DOMAIN ErrorCode : a # b => ErrorCode[a] # ErrorCode[b]
        /\ ErrorCode["INVALID_TOKEN"] = 2
        /\ ErrorCode["INTERNAL_ERROR"] = 999
        /\ response' # response =>
              /\ handlers[response'[1].intent] # None
              /\ response'[1].ret.code = handlers[response'[1].intent][1].code
              /\ response'[1].ret.text = handlers[response'[1].intent][1].text
      ]_vars

\* C10 witness: test_intent("ERROR") returned the handler's
\* ErrorResponse(INTERNAL_ERROR, "internal error")
C10_Witness ==
    /\ response # None
    /\ response[1].intent = "ERROR"
    /\ response[1].ret = ErrorResponse(999, "internal error")
    /\ built # None

====
